---- MODULE Spec2Model ----
(***************************************************************************)
(* The hatchrest integration (custom_components/hatchrest/__init__.py):    *)
(* config-entry setup and unload, the polling coordinator's refresh        *)
(* handler and the base entity's device descriptor.                        *)
(*                                                                         *)
(* Calls into the host (bluetooth discovery, platform setup and unload)    *)
(* and into the device library (connect_async, refresh_data) are inputs:   *)
(* every outcome they can hand back is drawn with \E.                      *)
(*                                                                         *)
(* When and how often the host calls a handler (the 30-second timer, the   *)
(* serialisation of refreshes, what it cancels at unload) is the host's    *)
(* code, not this module's: here any handler may be called at any time,    *)
(* and each call is one step.                                              *)
(***************************************************************************)
EXTENDS Integers, Sequences, FiniteSets, TLC

VARIABLES
    runtime_alias,  \* whether the interpreter's asyncio.TimeoutError IS the builtin TimeoutError
    hass_data,      \* hass.data: a dict that has the key Domain or not
    coords,         \* every HatchRestCoordinator constructed so far (object identity = index)
    entities,       \* every HatchRestEntity constructed so far
    notified,       \* entities whose update callback ran in the latest refresh
    lastCall        \* the latest call of a handler: its arguments and how it ended

vars == <<runtime_alias, hass_data, coords, entities, notified, lastCall>>

\* ------------------------------------------------------------------ bounds
MaxCoordinators == 2
MaxEntities == 1
MaxDuration == 12

\* --------------------------------------------------------------- constants
TIMEOUT == 10
UPDATE_INTERVAL == 30

None == "None"
Domain == "hatchrest"
CONNECTION_BLUETOOTH == "bluetooth"

\* ------------------------------------------------------------------ inputs
EntryIds == {"entry-1", "entry-2"}
Addresses == {"aa:bb:cc:dd:ee:ff", "AA:BB:CC:DD:EE:FF"}
UniqueIds == {None, "", "uid-1"}
DeviceNames == {"Nursery", "Bedroom"}
ConfigEntries == [entry_id : EntryIds, address : Addresses, unique_id : UniqueIds]
\* the entries of a host whose config flow gave every entry a unique id
IdentifiedEntries == {e \in ConfigEntries : e.unique_id = "uid-1"}
\* one entry id, every unique id
SingleEntries == {e \in ConfigEntries : e.entry_id = "entry-1"}

\* str.upper() on the configured addresses
upper(s) == IF s = "aa:bb:cc:dd:ee:ff" THEN "AA:BB:CC:DD:EE:FF" ELSE s

\* what the bluetooth stack may currently see (it keys devices by upper-case address)
VisibleSets == SUBSET {"AA:BB:CC:DD:EE:FF"}

\* Python truthiness of a str | None
Truthy(x) == x # None /\ x # ""

\* ---------------------------------------------------------------- exceptions
NoExc == [type |-> None, msg |-> <<>>, cause |-> None]
Exc(t, m, c) == [type |-> t, msg |-> m, cause |-> c]

\* the exception classes the device library's calls are taken to raise
DeviceExcTypes ==
    {"BleakError", "TimeoutError", "asyncio.TimeoutError", "RuntimeError", "ValueError"}
DeviceExc(t) == Exc(t, <<"raised by the device library">>, None)

\* isinstance(exc, cls) for the classes above: asyncio.TimeoutError is the builtin
\* TimeoutError only where the interpreter aliases them (Python >= 3.11); before
\* that it is a separate subclass of Exception.
IsInstance(alias, t, cls) ==
    \/ t = cls
    \/ alias /\ {t, cls} = {"TimeoutError", "asyncio.TimeoutError"}

Returned(v) == [kind |-> "return", value |-> v, exc |-> NoExc]
Raised(e) == [kind |-> "raise", value |-> None, exc |-> e]

\* ------------------------------------------------------------------ hass.data
EmptyDict == [k \in {} |-> None]
HasDomain(hd) == Domain \in DOMAIN hd
Registry(hd) == IF HasDomain(hd) THEN hd[Domain] ELSE EmptyDict
SetItem(d, k, v) == [x \in (DOMAIN d) \cup {k} |-> IF x = k THEN v ELSE d[x]]
Pop(d, k) == [x \in (DOMAIN d) \ {k} |-> d[x]]

\* bluetooth.async_ble_device_from_address(hass, address)
async_ble_device_from_address(visible, address) ==
    IF address \in visible THEN address ELSE None

\* HatchRestCoordinator.__init__
HatchRestCoordinator(unique_id, device) ==
    [name |-> "hatchrest", update_interval |-> UPDATE_INTERVAL,
     unique_id |-> unique_id, device |-> device, data |-> None]

\* what `await connect_async(ble_device, scan_now=False)` may hand back
ConnectOutcomes(ble_device) ==
    {[raised |-> t, device |-> [name |-> None, address |-> None]] : t \in {"BleakError"}}
    \cup {[raised |-> None, device |-> [name |-> n, address |-> a]] :
            n \in DeviceNames, a \in {None, "", ble_device}}
\* ... when the handle reports the address it connected to, and one name
AddressedOutcomes(ble_device) ==
    {o \in ConnectOutcomes(ble_device) :
        o.raised # None \/ (o.device.address = ble_device /\ o.device.name = "Nursery")}

\* ---------------------------------------------------------------- call records
NoInfo == [identifiers |-> {}, connections |-> {}, name |-> None,
           manufacturer |-> None, model |-> None]
NoCall ==
    [op |-> "init", entry_id |-> None, address |-> None, visible |-> {},
     coord |-> 0, entity |-> 0, found |-> FALSE, connected |-> FALSE, platforms_called |-> FALSE,
     timed_out |-> FALSE, raised |-> None, unload_ok |-> FALSE,
     result |-> Returned(None), info |-> NoInfo]

\* ------------------------------------------------------------ async_setup_entry
SetupNotReadyMsg(address) == <<"Could not find Hatch Rest device with address ", address>>

\* Lines 43-49, once the device was found: connect, construct the coordinator,
\* store it, set up the platforms.  The right-hand side of line 43
\* (connect_async, then the constructor) is evaluated before
\* hass.data.setdefault, so a failing connect leaves hass.data as it was.
SetupConnected(hd, cs, entry, conn) ==
    IF conn.raised # None
    THEN [hass_data |-> hd, coords |-> cs,
          found |-> TRUE, connected |-> TRUE, platforms_called |-> FALSE,
          result |-> Raised(DeviceExc(conn.raised))]
    ELSE [hass_data |-> SetItem(hd, Domain,
                                SetItem(Registry(hd), entry.entry_id, Len(cs) + 1)),
          coords |-> Append(cs, HatchRestCoordinator(entry.unique_id, conn.device)),
          found |-> TRUE, connected |-> TRUE, platforms_called |-> TRUE,
          result |-> Returned("True")]

\* a setup that never looks at what the lookup returned
async_setup_entry_unchecked(hd, cs, entry, visible, conn) ==
    SetupConnected(hd, cs, entry, conn)

\* The post-state and result of async_setup_entry(hass, entry), given what the
\* bluetooth stack sees and what connect_async hands back.
async_setup_entry(hd, cs, entry, visible, conn) ==
    LET address == entry.address
        ble_device == async_ble_device_from_address(visible, upper(address))
    IN  IF ~Truthy(ble_device)
        THEN [hass_data |-> hd, coords |-> cs,
              found |-> FALSE, connected |-> FALSE, platforms_called |-> FALSE,
              result |-> Raised(Exc("ConfigEntryNotReady",
                                    SetupNotReadyMsg(address), None))]
        ELSE SetupConnected(hd, cs, entry, conn)

SetupEntry(entry, visible, conn) ==
    /\ LET r == async_setup_entry(hass_data, coords, entry, visible, conn)
       IN  /\ Len(r.coords) <= MaxCoordinators
           /\ hass_data' = r.hass_data
           /\ coords' = r.coords
           /\ lastCall' = [NoCall EXCEPT !.op = "setup", !.entry_id = entry.entry_id,
                              !.address = entry.address, !.visible = visible,
                              !.found = r.found,
                              !.connected = r.connected,
                              !.platforms_called = r.platforms_called,
                              !.result = r.result]
    /\ UNCHANGED <<runtime_alias, entities, notified>>

\* ----------------------------------------------------------- async_unload_entry
\* The post-state and result of async_unload_entry(hass, entry), given what the
\* host's async_unload_platforms answers.  hass.data[DOMAIN] and .pop(entry_id)
\* raise KeyError when the key is missing.
KeyError(hd, entry_id) ==
    Exc("KeyError", <<IF HasDomain(hd) THEN entry_id ELSE Domain>>, None)

\* an unload that pops the entry whatever async_unload_platforms answered
async_unload_entry_always_pop(hd, entry_id, unload_ok) ==
    IF HasDomain(hd) /\ entry_id \in DOMAIN hd[Domain]
    THEN [hass_data |-> SetItem(hd, Domain, Pop(hd[Domain], entry_id)),
          result |-> Returned(IF unload_ok THEN "True" ELSE "False")]
    ELSE [hass_data |-> hd, result |-> Raised(KeyError(hd, entry_id))]

async_unload_entry(hd, entry_id, unload_ok) ==
    IF unload_ok
    THEN IF HasDomain(hd) /\ entry_id \in DOMAIN hd[Domain]
         THEN [hass_data |-> SetItem(hd, Domain, Pop(hd[Domain], entry_id)),
               result |-> Returned("True")]
         ELSE [hass_data |-> hd, result |-> Raised(KeyError(hd, entry_id))]
    ELSE [hass_data |-> hd, result |-> Returned("False")]

UnloadEntry(entry_id, unload_ok) ==
    /\ LET r == async_unload_entry(hass_data, entry_id, unload_ok)
       IN  /\ hass_data' = r.hass_data
           /\ lastCall' = [NoCall EXCEPT !.op = "unload", !.entry_id = entry_id,
                              !.unload_ok = unload_ok, !.result = r.result]
    /\ UNCHANGED <<runtime_alias, coords, entities, notified>>

\* ------------------------------------ HatchRestCoordinator._async_update_data
TimeoutMsg == <<"Connection timed out while fetching data from device">>
FailedMsg == <<"Failed getting data from device">>
UpdateFailed(msg, exc) == Exc("UpdateFailed", msg, exc.type)

\* async_timeout.timeout(10) around refresh_data: the context fires when the
\* call is still pending at the deadline (at exactly the deadline either may win).
TimedOut(dur, tie) == dur > TIMEOUT \/ (dur = TIMEOUT /\ tie)

\* What leaves the `async with` block: nothing, the timeout context's
\* asyncio.TimeoutError, or the exception refresh_data raised.
InnerRaised(dur, tie, res) ==
    IF TimedOut(dur, tie) THEN Exc("asyncio.TimeoutError", <<>>, None)
    ELSE IF res = "ok" THEN NoExc
    ELSE DeviceExc(res)

\* the handler with its two except clauses in the other order of messages
async_update_data_swapped(alias, dur, tie, res) ==
    LET exc == InnerRaised(dur, tie, res)
    IN  IF exc = NoExc THEN Returned(None)
        ELSE IF IsInstance(alias, exc.type, "TimeoutError")
        THEN Raised(UpdateFailed(FailedMsg, exc))
        ELSE IF IsInstance(alias, exc.type, "BleakError")
        THEN Raised(UpdateFailed(TimeoutMsg, exc))
        ELSE Raised(exc)

\* the handler with a catch-all last clause
async_update_data_catch_all(alias, dur, tie, res) ==
    LET exc == InnerRaised(dur, tie, res)
    IN  IF exc = NoExc THEN Returned(None)
        ELSE IF IsInstance(alias, exc.type, "TimeoutError")
        THEN Raised(UpdateFailed(TimeoutMsg, exc))
        ELSE Raised(UpdateFailed(FailedMsg, exc))

\* the handler returning the device's refreshed state
async_update_data_returns_state(alias, dur, tie, res) ==
    LET exc == InnerRaised(dur, tie, res)
    IN  IF exc = NoExc THEN Returned("refreshed state")
        ELSE IF IsInstance(alias, exc.type, "TimeoutError")
        THEN Raised(UpdateFailed(TimeoutMsg, exc))
        ELSE IF IsInstance(alias, exc.type, "BleakError")
        THEN Raised(UpdateFailed(FailedMsg, exc))
        ELSE Raised(exc)

async_update_data(alias, dur, tie, res) ==
    LET exc == InnerRaised(dur, tie, res)
    IN  IF exc = NoExc THEN Returned(None)
        ELSE IF IsInstance(alias, exc.type, "TimeoutError")
        THEN Raised(UpdateFailed(TimeoutMsg, exc))
        ELSE IF IsInstance(alias, exc.type, "BleakError")
        THEN Raised(UpdateFailed(FailedMsg, exc))
        ELSE Raised(exc)

\* The host's refresh wrapper around the handler: the value the handler
\* returns becomes the coordinator's data; a raise leaves it.
HostStore(coord, r) ==
    IF r.kind = "return" THEN [coord EXCEPT !.data = r.value] ELSE coord

Subscribers(c) == {i \in 1..Len(entities) : entities[i].coordinator = c}

\* ... and subscribers hear of fresh data and of a classified failure.
HostNotify(c, r) ==
    IF r.kind = "return" \/ r.exc.type = "UpdateFailed" THEN Subscribers(c) ELSE {}

UpdateData(c, dur, tie, res) ==
    /\ c \in 1..Len(coords)
    /\ LET r == async_update_data(runtime_alias, dur, tie, res)
       IN  /\ coords' = [coords EXCEPT ![c] = HostStore(@, r)]
           /\ notified' = HostNotify(c, r)
           /\ lastCall' = [NoCall EXCEPT !.op = "update", !.coord = c,
                              !.timed_out = TimedOut(dur, tie),
                              !.raised = InnerRaised(dur, tie, res).type,
                              !.result = r]
    /\ UNCHANGED <<runtime_alias, hass_data, entities>>

\* ------------------------------------------------------------- HatchRestEntity
\* HatchRestEntity.__init__(coordinator): _device is the coordinator's device
\* object (read through the coordinator here), _attr_unique_id is copied.
HatchRestEntity(c) == [coordinator |-> c, attr_unique_id |-> coords[c].unique_id]

\* The switch platform builds its entities from hass.data[DOMAIN][entry_id].
CreateEntity(entry_id) ==
    /\ Len(entities) < MaxEntities
    /\ entry_id \in DOMAIN Registry(hass_data)
    /\ entities' = Append(entities, HatchRestEntity(Registry(hass_data)[entry_id]))
    /\ lastCall' = [NoCall EXCEPT !.op = "create_entity", !.entry_id = entry_id,
                       !.entity = Len(entities) + 1]
    /\ UNCHANGED <<runtime_alias, hass_data, coords, notified>>

device_name(device) == device.name

MissingIdentityMsg == <<"Missing bluetooth address for hatch rest device">>

\* the descriptor, whatever the identity
Descriptor(device, unique_id) ==
    [result |-> Returned("DeviceInfo"),
     info |-> [identifiers |-> {<<Domain, unique_id>>},
               connections |-> {<<CONNECTION_BLUETOOTH, device.address>>},
               name |-> device_name(device),
               manufacturer |-> "Hatch",
               model |-> "Rest"]]

\* device_info with any() where the code has all()
device_info_any(device, unique_id) ==
    IF ~(Truthy(device.address) \/ Truthy(unique_id))
    THEN [result |-> Raised(Exc("ValueError", MissingIdentityMsg, None)), info |-> NoInfo]
    ELSE Descriptor(device, unique_id)

\* HatchRestEntity.device_info
device_info(device, unique_id) ==
    IF ~(Truthy(device.address) /\ Truthy(unique_id))
    THEN [result |-> Raised(Exc("ValueError", MissingIdentityMsg, None)), info |-> NoInfo]
    ELSE Descriptor(device, unique_id)

DeviceInfo(i) ==
    /\ i \in 1..Len(entities)
    /\ LET r == device_info(coords[entities[i].coordinator].device,
                            entities[i].attr_unique_id)
       IN  lastCall' = [NoCall EXCEPT !.op = "device_info", !.entity = i,
                           !.result = r.result, !.info = r.info]
    /\ UNCHANGED <<runtime_alias, hass_data, coords, entities, notified>>

\* ------------------------------------------------------------------ the system
Init ==
    /\ runtime_alias \in BOOLEAN
    /\ hass_data = EmptyDict
    /\ coords = <<>>
    /\ entities = <<>>
    /\ notified = {}
    /\ lastCall = NoCall

RefreshResults == {"ok"} \cup DeviceExcTypes

\* seconds refresh_data takes: no time at all, and the seconds around the deadline
Durations == {0} \cup ((TIMEOUT - 1)..MaxDuration)

\* What one refresh_data call may do: how long it takes, who wins at exactly
\* the deadline, and how it ends when it is not cut off (a call that is cut
\* off never gets to end).
RefreshOutcomes ==
    {o \in [dur : Durations, tie : BOOLEAN, res : RefreshResults] :
        /\ o.tie => o.dur = TIMEOUT
        /\ TimedOut(o.dur, o.tie) => o.res = "ok"}

Setup ==
    \E entry \in IdentifiedEntries, visible \in VisibleSets :
       \E conn \in AddressedOutcomes(upper(entry.address)) : SetupEntry(entry, visible, conn)

\* the first setup of a host
SetupAny ==
    /\ coords = <<>>
    /\ \E entry \in SingleEntries, visible \in VisibleSets :
          \E conn \in ConnectOutcomes(upper(entry.address)) : SetupEntry(entry, visible, conn)

Unload == \E entry_id \in EntryIds, unload_ok \in BOOLEAN : UnloadEntry(entry_id, unload_ok)

Update ==
    \E c \in 1..MaxCoordinators, o \in RefreshOutcomes : UpdateData(c, o.dur, o.tie, o.res)

Create == \E entry_id \in EntryIds : CreateEntity(entry_id)

Describe == \E i \in 1..MaxEntities : DeviceInfo(i)

\* the integration under a host that sets up, polls and unloads in any order
Next ==
    \/ Setup
    \/ Unload
    \/ Update
    \/ Create
    \/ Describe

Spec == Init /\ [][Next]_vars

\* the entity adapter over every unique id and every handle connect_async may give
NextEntity ==
    \/ SetupAny
    \/ Create
    \/ Describe

SpecEntity == Init /\ [][NextEntity]_vars

\* ==================================================================== claims
IsUpdateFailed(r, msg) ==
    r.kind = "raise" /\ r.exc.type = "UpdateFailed" /\ r.exc.msg = msg

\* C1: every refresh attempt that the 10-second timeout ends raises UpdateFailed
\* with the message "Connection timed out while fetching data from device", and
\* leaves the coordinator's snapshot as it was.
C1_TimeoutClassified ==
    [][(lastCall'.op = "update" /\ lastCall'.timed_out) =>
         /\ IsUpdateFailed(lastCall'.result,
                           <<"Connection timed out while fetching data from device">>)
         /\ coords'[lastCall'.coord].data = coords[lastCall'.coord].data]_vars

\* C2: every refresh attempt in which refresh_data raises BleakError before the
\* timeout raises UpdateFailed with the message "Failed getting data from
\* device", which is not the timeout's message, and leaves the coordinator's
\* snapshot as it was.
C2_TransportErrorClassified ==
    [][(lastCall'.op = "update" /\ ~lastCall'.timed_out /\ lastCall'.raised = "BleakError") =>
         /\ IsUpdateFailed(lastCall'.result, <<"Failed getting data from device">>)
         /\ lastCall'.result.exc.msg #
               <<"Connection timed out while fetching data from device">>
         /\ coords'[lastCall'.coord].data = coords[lastCall'.coord].data]_vars

C2_Witness ==
    /\ lastCall.op = "update"
    /\ ~lastCall.timed_out
    /\ lastCall.raised = "BleakError"
    /\ lastCall.result.exc.type = "UpdateFailed"

UpdateSucceeded == lastCall.op = "update" /\ lastCall.result.kind = "return"

TimeoutClasses == {"TimeoutError", "asyncio.TimeoutError"}
OtherFailure ==
    /\ lastCall.op = "update"
    /\ ~lastCall.timed_out
    /\ lastCall.raised \notin {None, "BleakError"} \cup TimeoutClasses

\* C9: a refresh attempt raises UpdateFailed only for a timeout or a BleakError;
\* any other exception refresh_data raises leaves the handler as it is, the
\* same exception and not an UpdateFailed.
C9_OthersPropagate ==
    /\ OtherFailure =>
         lastCall.result = Raised(Exc(lastCall.raised, <<"raised by the device library">>, None))
    /\ (lastCall.op = "update" /\ lastCall.result.exc.type = "UpdateFailed") =>
         (lastCall.timed_out \/ lastCall.raised \in {"BleakError"} \cup TimeoutClasses)

C9_Witness == OtherFailure /\ lastCall.result.exc.type = "RuntimeError"

Missing(x) == x = None \/ x = ""

\* C6: device_info raises ValueError whenever the device address or the unique
\* id is absent or empty, and otherwise returns the descriptor with identifiers
\* {(domain, unique_id)}, connections {("bluetooth", address)}, the device's
\* name, manufacturer "Hatch" and model "Rest".
C6_DeviceInfo ==
    lastCall.op = "device_info" =>
        LET co == coords[entities[lastCall.entity].coordinator]
        IN  IF Missing(co.device.address) \/ Missing(co.unique_id)
            THEN lastCall.result.kind = "raise" /\ lastCall.result.exc.type = "ValueError"
            ELSE /\ lastCall.result.kind = "return"
                 /\ lastCall.info.identifiers = {<<"hatchrest", co.unique_id>>}
                 /\ lastCall.info.connections = {<<"bluetooth", co.device.address>>}
                 /\ lastCall.info.name = co.device.name
                 /\ lastCall.info.manufacturer = "Hatch"
                 /\ lastCall.info.model = "Rest"

C6_Witness ==
    /\ lastCall.op = "device_info"
    /\ lastCall.result.kind = "return"
    /\ lastCall.info.connections = {<<"bluetooth", "AA:BB:CC:DD:EE:FF">>}
    /\ lastCall.info.identifiers = {<<"hatchrest", "uid-1">>}

Contains(msg, part) == \E i \in 1..Len(msg) : msg[i] = part

\* no device the bluetooth stack sees has the configured address, whatever its case
NotDiscoverable(address, visible) ==
    \A v \in visible : v # address /\ v # upper(address)

\* C7: a setup whose configured address is not discoverable raises
\* ConfigEntryNotReady with a message that contains the configured address, and
\* does nothing else: no connect, no coordinator in the registry, no platforms.
C7_NotReady ==
    [][(lastCall'.op = "setup" /\ NotDiscoverable(lastCall'.address, lastCall'.visible)) =>
         /\ lastCall'.result.kind = "raise"
         /\ lastCall'.result.exc.type = "ConfigEntryNotReady"
         /\ Contains(lastCall'.result.exc.msg, lastCall'.address)
         /\ ~lastCall'.connected
         /\ ~lastCall'.platforms_called
         /\ hass_data' = hass_data
         /\ coords' = coords]_vars

C7_Witness ==
    /\ lastCall.op = "setup"
    /\ NotDiscoverable(lastCall.address, lastCall.visible)
    /\ lastCall.result.exc.type = "ConfigEntryNotReady"

InRegistry(hd, e) == e \in DOMAIN Registry(hd)
OthersKept(hd1, hd2, e) ==
    \A x \in EntryIds \ {e} :
        /\ InRegistry(hd1, x) <=> InRegistry(hd2, x)
        /\ InRegistry(hd1, x) => Registry(hd1)[x] = Registry(hd2)[x]

\* C10 as claimed, call by call: after a setup of an entry the registry holds a
\* coordinator under its id iff that setup succeeded; an unload whose platform
\* unload succeeds returns true and removes the entry; an unload whose platform
\* unload fails returns false and leaves the registry unchanged.  (From an empty
\* registry this is "in the registry iff the most recent setup succeeded and no
\* later unload succeeded" after every sequence of calls.)
C10_RegistryTracksCalls ==
    [][/\ lastCall'.op = "setup" =>
            /\ InRegistry(hass_data', lastCall'.entry_id)
                  <=> lastCall'.result = Returned("True")
            /\ lastCall'.result = Returned("True") => Len(coords') = Len(coords) + 1
       /\ (lastCall'.op = "unload" /\ lastCall'.unload_ok) =>
            /\ lastCall'.result = Returned("True")
            /\ ~InRegistry(hass_data', lastCall'.entry_id)
       /\ (lastCall'.op = "unload" /\ ~lastCall'.unload_ok) =>
            /\ lastCall'.result = Returned("False")
            /\ hass_data' = hass_data]_vars

\* C10 as amended: a successful setup inserts exactly one new coordinator under
\* the entry id and returns true; a setup that raises leaves the registry as it
\* was (an entry set up earlier stays); an unload whose platform unload succeeds
\* removes the entry and returns true when the entry is in the registry, and
\* raises KeyError with the registry unchanged when it is not; an unload whose
\* platform unload fails returns false and leaves the registry unchanged.
C10_RegistryStepwise ==
    [][/\ (lastCall'.op = "setup" /\ lastCall'.result.kind = "return") =>
            /\ lastCall'.result = Returned("True")
            /\ Len(coords') = Len(coords) + 1
            /\ InRegistry(hass_data', lastCall'.entry_id)
            /\ Registry(hass_data')[lastCall'.entry_id] = Len(coords')
            /\ OthersKept(hass_data, hass_data', lastCall'.entry_id)
       /\ (lastCall'.op = "setup" /\ lastCall'.result.kind = "raise") =>
            /\ hass_data' = hass_data
            /\ coords' = coords
       /\ (lastCall'.op = "unload" /\ lastCall'.unload_ok) =>
            IF InRegistry(hass_data, lastCall'.entry_id)
            THEN /\ lastCall'.result = Returned("True")
                 /\ ~InRegistry(hass_data', lastCall'.entry_id)
                 /\ OthersKept(hass_data, hass_data', lastCall'.entry_id)
            ELSE /\ lastCall'.result.kind = "raise"
                 /\ lastCall'.result.exc.type = "KeyError"
                 /\ hass_data' = hass_data
       /\ (lastCall'.op = "unload" /\ ~lastCall'.unload_ok) =>
            /\ lastCall'.result = Returned("False")
            /\ hass_data' = hass_data
       /\ lastCall'.op \notin {"setup", "unload"} => hass_data' = hass_data]_vars

\* a setup has failed for an entry that an earlier setup left in the registry
C10_Witness ==
    /\ lastCall.op = "setup"
    /\ lastCall.result.kind = "raise"
    /\ InRegistry(hass_data, lastCall.entry_id)
====
